---- MODULE Spec2Model ----
(***************************************************************************)
(* A model of simple-proxy (main.go): a reverse proxy with an in-memory    *)
(* cache of gzip-decompressed GET responses, loaded from and periodically  *)
(* saved to a JSON snapshot.                                               *)
(*                                                                         *)
(* Bytes are abstracted to tokens.  An upstream body is a sequence over    *)
(* "H" (a gzip member header), "c" (a compressed payload byte, which       *)
(* inflates to "p") and "F" (the final block and a correct trailer); a     *)
(* token at a place where the gzip grammar does not allow it is a corrupt  *)
(* byte.  A URL path on the wire is a sequence over "/", "x" and "%2F".    *)
(* The client connection is taken to accept every write, and TARGET_URL    *)
(* to parse.                                                               *)
(***************************************************************************)
EXTENDS Naturals, Sequences, FiniteSets, TLC

VARIABLES
    filePath,   \* LocalCache.filePath
    data,       \* LocalCache.data
    file,       \* the content of the snapshot file
    mainPc,     \* the position of run()
    flusher,    \* the position of the goroutine Run starts
    rq,         \* for each handler goroutine, the locals of ServeHTTP
    crashed,    \* the process ended with a fatal error
    loadCalled, \* history: Load was called
    saveCalled, \* history: Save was called
    loadedKeys, \* history: the keys Load read from the snapshot
    captured,   \* history: keys of GET requests answered with a complete gzip stream
    stored,     \* history: keys a request has stored
    ja, jb,     \* the two URLs given to joinURLPath
    jout,       \* its result
    fresh,      \* a second LocalCache on the same file: whether it has loaded, its data
    sv,         \* json.Marshal inside Save: the entries collected so far
    ctx         \* the context given to LocalCache.Run

vars == <<filePath, data, file, mainPc, flusher, rq, crashed,
          loadCalled, saveCalled, loadedKeys, captured, stored, ja, jb, jout,
          fresh, sv, ctx>>

proxyVars == <<filePath, data, file, mainPc, flusher, rq, crashed,
               loadCalled, saveCalled, loadedKeys, captured, stored>>
joinVars == <<ja, jb, jout>>
auxVars == <<fresh, sv, ctx>>

(***************************************************************************)
(* Bounds.                                                                 *)
(***************************************************************************)
MaxBody == 3        \* longest upstream body, in tokens
MaxCoreBody == 3    \* longest upstream body while requests run concurrently
MaxPath == 3        \* longest URL path given to the join, in tokens
MaxQuery == 2       \* longest query string given to the rewrite, in tokens
BufSize == 2        \* the read-ahead of the buffered reader under the gzip reader

Handlers == {1, 2}
SeqHandlers == {1}

SeqsUpTo(S, n) == UNION {[1..k -> S] : k \in 0..n}

EmptyMap == [k \in {} |-> <<>>]

(***************************************************************************)
(* net/url as main.go uses it.                                             *)
(***************************************************************************)
UnescapeTok(t) == IF t = "%2F" THEN "/" ELSE t

Unescape(s) == [i \in 1..Len(s) |-> UnescapeTok(s[i])]

\* url.Parse / the server's parse of the request line: Path is the decoded
\* path, RawPath is kept only when the wire form is not the default encoding.
ParseURL(scheme, host, wire, query) ==
    [Scheme |-> scheme, Host |-> host, Path |-> Unescape(wire),
     RawPath |-> IF Unescape(wire) = wire THEN <<>> ELSE wire,
     RawQuery |-> query]

EscapedPath(u) ==
    IF u.RawPath # <<>> /\ Unescape(u.RawPath) = u.Path THEN u.RawPath ELSE u.Path

\* The URL without its query.
URLPathOnly(u) ==
    (IF u.Scheme # "" THEN <<u.Scheme, "://", u.Host>> ELSE <<>>) \o EscapedPath(u)

\* URL.String()
URLString(u) ==
    (IF u.Scheme # "" THEN <<u.Scheme, "://", u.Host>> ELSE <<>>)
    \o EscapedPath(u)
    \o (IF u.RawQuery # <<>> THEN <<"?">> \o u.RawQuery ELSE <<>>)

HasSuffixSlash(s) == Len(s) > 0 /\ s[Len(s)] = "/"
HasPrefixSlash(s) == Len(s) > 0 /\ s[1] = "/"

\* A join that never looks at the slashes.
joinNoSlash(a, b) == a \o b

singleJoiningSlash(a, b) ==
    LET aslash == HasSuffixSlash(a)
        bslash == HasPrefixSlash(b)
    IN  IF aslash /\ bslash THEN a \o Tail(b)
        ELSE IF ~aslash /\ ~bslash THEN a \o <<"/">> \o b
        ELSE a \o b

joinURLPath(a, b) ==
    IF a.RawPath = <<>> /\ b.RawPath = <<>>
    THEN [path |-> singleJoiningSlash(a.Path, b.Path), rawpath |-> <<>>]
    ELSE LET apath == EscapedPath(a)
             bpath == EscapedPath(b)
             aslash == HasSuffixSlash(apath)
             bslash == HasPrefixSlash(bpath)
         IN  IF aslash /\ bslash
             THEN [path |-> a.Path \o Tail(b.Path), rawpath |-> apath \o Tail(bpath)]
             ELSE IF ~aslash /\ ~bslash
             THEN [path |-> a.Path \o <<"/">> \o b.Path,
                   rawpath |-> apath \o <<"/">> \o bpath]
             ELSE [path |-> a.Path \o b.Path, rawpath |-> apath \o bpath]

\* A rewrite that puts "&" between the queries whatever they are.
rewriteAlwaysAmp(u, target) ==
    LET j == joinURLPath(target, u)
    IN  [Scheme |-> target.Scheme, Host |-> target.Host,
         Path |-> j.path, RawPath |-> j.rawpath,
         RawQuery |-> target.RawQuery \o <<"&">> \o u.RawQuery]

rewriteRequestURL(u, target) ==
    LET j == joinURLPath(target, u)
    IN  [Scheme |-> target.Scheme, Host |-> target.Host,
         Path |-> j.path, RawPath |-> j.rawpath,
         RawQuery |-> IF target.RawQuery = <<>> \/ u.RawQuery = <<>>
                      THEN target.RawQuery \o u.RawQuery
                      ELSE target.RawQuery \o <<"&">> \o u.RawQuery]

(***************************************************************************)
(* compress/gzip over io.TeeReader(resp.Body, w).                          *)
(***************************************************************************)
\* A capture that stores the bytes as they came.
InflateNothing(t) == t

Inflate(t) == IF t = "c" THEN "p" ELSE t

\* gzip.NewReader followed by io.Copy(buf, gr), reading body from byte i on.
\* res: "eof" (NewReader returned io.EOF), "newreader" (it returned another
\* error), "copy" (io.Copy returned an error), "ok".  need: the index of the
\* byte the reader asked for last.
RECURSIVE GzipRead(_, _, _, _, _)
GzipRead(body, i, inMember, first, out) ==
    IF ~inMember
    THEN IF i > Len(body)
         THEN [res |-> IF first THEN "eof" ELSE "ok", need |-> i, out |-> out]
         ELSE IF body[i] = "H"
         THEN GzipRead(body, i + 1, TRUE, first, out)
         ELSE [res |-> IF first THEN "newreader" ELSE "copy", need |-> i, out |-> out]
    ELSE IF i > Len(body)
         THEN [res |-> "copy", need |-> i, out |-> out]
         ELSE IF body[i] = "c"
         THEN GzipRead(body, i + 1, TRUE, first, Append(out, Inflate(body[i])))
         ELSE IF body[i] = "F"
         THEN GzipRead(body, i + 1, FALSE, FALSE, out)
         ELSE [res |-> "copy", need |-> i, out |-> out]

Min(a, b) == IF a < b THEN a ELSE b

\* The numbers of bytes the TeeReader can have passed to w when the gzip
\* reader stops: the buffered reader under it fills itself by reads of at
\* most BufSize bytes, so it is ahead of the byte asked for by less than that.
TeeLens(body, need) ==
    IF need > Len(body) THEN {Len(body)}
    ELSE need .. Min(Len(body), need - 1 + BufSize)

\* RFC 1952: a gzip stream is one or more members, each a header, deflate
\* data and a trailer.  Payload is what it decompresses to.
IsGzip(b) ==
    /\ Len(b) >= 2 /\ b[1] = "H" /\ b[Len(b)] = "F"
    /\ \A i \in 2..Len(b) : (b[i] = "H") <=> (b[i - 1] = "F")

Payload(b) == [i \in 1..Cardinality({j \in 1..Len(b) : b[j] = "c"}) |-> "p"]

\* A gzip stream, or one that upstream cut short.
IsGzipPrefix(b) ==
    \A i \in 1..Len(b) :
       IF i = 1 THEN b[i] = "H"
       ELSE (b[i] = "H") <=> (b[i - 1] = "F")

(***************************************************************************)
(* encoding/json on map[string][]byte: a []byte is a base64 string.        *)
(***************************************************************************)
B64Tok(b) == IF b = "p" THEN "cA" ELSE "??"
UnB64Tok(t) == IF t = "cA" THEN "p" ELSE "?"

\* A JSON string is valid UTF-8: the encoder writes U+FFFD for a byte that is
\* not ("xFF" stands for such a byte, "uFFFD" for the replacement character).
JsonTok(t) == IF t = "xFF" THEN "uFFFD" ELSE t
JsonKey(k) == [i \in 1..Len(k) |-> JsonTok(k[i])]

\* json.Marshal(c.data): an object of base64 strings under the encoded keys.
Marshal(m) ==
    [j \in {JsonKey(k) : k \in DOMAIN m} |->
        LET k == CHOOSE x \in DOMAIN m : JsonKey(x) = j
        IN  [i \in 1..Len(m[k]) |-> B64Tok(m[k][i])]]

\* A JSON value that decodes into a []byte: a string of base64 ("*" stands
\* for anything else: a number, a string that is no base64).
ValidB64(v) == \A i \in 1..Len(v) : v[i] = "cA"

\* json.Unmarshal(buf, &c.data) on an object: a value that does not decode
\* leaves a nil entry under its key, and the decoding goes on.
Unmarshal(o) ==
    [k \in DOMAIN o |->
        IF ValidB64(o[k]) THEN [i \in 1..Len(o[k]) |-> UnB64Tok(o[k][i])] ELSE <<>>]

AbsentFile == [kind |-> "absent", obj |-> EmptyMap]
GarbageFile == [kind |-> "garbage", obj |-> EmptyMap]
JsonFile(o) == [kind |-> "json", obj |-> o]

(***************************************************************************)
(* The environment: configuration, requests, upstream.                     *)
(***************************************************************************)
CacheDirs == {"", "dir"}

TargetURL == ParseURL("http", "upstream", <<"/", "api">>, <<>>)

Urls == {ParseURL("", "", <<"/", "x">>, <<>>),
         ParseURL("", "", <<"/", "x">>, <<"q">>)}

Methods == {"GET", "POST"}
HeaderNames == {"If-None-Match", "If-Modified-Since", "Accept"}
Statuses == {200, 404}
BodyToks == {"H", "c", "F"}
RespHeaderSets == {{}, {"Content-Encoding", "ETag"}}

InitialFiles ==
    {AbsentFile, GarbageFile,
     JsonFile(Marshal([k \in {URLString(ParseURL("", "", <<"/", "x">>, <<>>))} |-> <<"p">>]))}

\* What the requests and the upstream of a run range over.
SeqIn == [methods |-> Methods, urls |-> Urls, hdrs |-> SUBSET HeaderNames,
          statuses |-> Statuses, respHdrs |-> RespHeaderSets,
          bodies |-> SeqsUpTo(BodyToks, MaxBody)]
ConcIn == [methods |-> Methods, urls |-> Urls, hdrs |-> {HeaderNames},
           statuses |-> {200}, respHdrs |-> {{"Content-Encoding", "ETag"}},
           bodies |-> {b \in SeqsUpTo(BodyToks, MaxCoreBody) : IsGzipPrefix(b)}]

(***************************************************************************)
(* LocalCache.                                                             *)
(***************************************************************************)
NewLocalCache(cacheDir) ==
    [filePath |-> IF cacheDir # "" THEN cacheDir \o "/cache.json" ELSE "",
     data |-> EmptyMap]

\* A cache that is on whatever the configuration says.
useCacheAlways == TRUE

useCache == filePath # ""

\* A store that keeps the newest entry only.
MapStoreOnly(m, k, v) == [x \in {k} |-> v]

\* A store that leaves an entry that is already there alone.
MapStoreKeep(m, k, v) ==
    IF k \in DOMAIN m THEN m ELSE [x \in DOMAIN m \cup {k} |-> IF x = k THEN v ELSE m[x]]

MapStore(m, k, v) == [x \in DOMAIN m \cup {k} |-> IF x = k THEN v ELSE m[x]]

\* Load from file f into the mapping m: the mapping afterwards and whether
\* Load returned an error.
LoadFrom(f, m) ==
    IF f.kind = "absent" THEN [data |-> m, err |-> FALSE]
    ELSE IF f.kind = "garbage" THEN [data |-> m, err |-> TRUE]
    ELSE [data |-> [k \in DOMAIN m \cup DOMAIN f.obj |->
                       IF k \in DOMAIN f.obj THEN Unmarshal(f.obj)[k] ELSE m[k]],
          err |-> \E k \in DOMAIN f.obj : ~ValidB64(f.obj[k])]

Load == LoadFrom(file, data)

\* Save: the file afterwards.
Save == JsonFile(Marshal(data))

IdleRq ==
    [pc |-> "idle", method |-> "", inUrl |-> ParseURL("", "", <<>>, <<>>),
     url |-> ParseURL("", "", <<>>, <<>>), p |-> <<>>,
     inHdr |-> {}, hdr |-> {}, looked |-> FALSE, forwarded |-> FALSE, err |-> "",
     status |-> 0, respHdr |-> {}, body |-> <<>>, wStatus |-> 0, wHdr |-> {},
     wBody |-> <<>>, buf |-> <<>>]

NoJoin == [done |-> FALSE, path |-> <<>>, rawpath |-> <<>>]

NoFresh == [loaded |-> FALSE, afterSave |-> FALSE, saved |-> EmptyMap, data |-> EmptyMap]

\* The state of json.Marshal(c.data) in Save: the length of the slice made
\* from v.Len(), the keys the map had then, the entries the iteration has
\* collected; and, where a specification follows the mappings memory has held
\* (seen not empty at the start), those mappings.
NoSave == [cap |-> 0, keys |-> {}, got |-> EmptyMap, seen |-> {}]

\* The mapping m is now in memory.
Record(s, m) == IF s.seen = {} THEN s ELSE [s EXCEPT !.seen = @ \cup {m}]

Init ==
    /\ \E d \in CacheDirs :
          /\ filePath = NewLocalCache(d).filePath
          /\ data = NewLocalCache(d).data
    /\ file \in InitialFiles
    /\ mainPc = "start"
    /\ flusher = "none"
    /\ rq = [h \in Handlers |-> IdleRq]
    /\ crashed = FALSE
    /\ loadCalled = FALSE
    /\ saveCalled = FALSE
    /\ loadedKeys = {}
    /\ captured = {}
    /\ stored = {}
    /\ ja = ParseURL("", "", <<>>, <<>>)
    /\ jb = ParseURL("", "", <<>>, <<>>)
    /\ jout = NoJoin
    /\ fresh = NoFresh
    /\ sv = NoSave
    /\ ctx = "live"

\* run() up to ListenAndServe: cache.Run(ctx).
Run ==
    /\ mainPc = "start"
    /\ mainPc' = "serving"
    /\ IF useCache
       THEN /\ data' = Load.data
            /\ loadCalled' = TRUE
            /\ loadedKeys' = DOMAIN Load.data
            /\ flusher' = "waiting"
            /\ sv' = Record(sv, Load.data)
       ELSE UNCHANGED <<data, loadCalled, loadedKeys, flusher, sv>>
    /\ UNCHANGED <<filePath, file, rq, crashed, saveCalled, captured, stored, joinVars,
                   fresh, ctx>>

\* A flush that empties the cache once it is written.
TickAndClear ==
    /\ flusher = "waiting"
    /\ ~crashed
    /\ file' = JsonFile(Marshal(data))
    /\ saveCalled' = TRUE
    /\ data' = EmptyMap
    /\ sv' = [sv EXCEPT !.cap = Cardinality(DOMAIN data), !.keys = DOMAIN data,
                        !.got = data]
    /\ UNCHANGED <<filePath, mainPc, flusher, rq, crashed, loadCalled,
                   loadedKeys, captured, stored, joinVars, fresh, ctx>>

\* A flush that goes on after the goroutine has returned.
TickWhenStopped ==
    /\ flusher \in {"waiting", "stopped"}
    /\ ~crashed
    /\ file' = JsonFile(Marshal(data))
    /\ saveCalled' = TRUE
    /\ sv' = [sv EXCEPT !.cap = Cardinality(DOMAIN data), !.keys = DOMAIN data,
                        !.got = data]
    /\ UNCHANGED <<filePath, data, mainPc, flusher, rq, crashed, loadCalled,
                   loadedKeys, captured, stored, joinVars, fresh, ctx>>

\* The flush goroutine: a tick of the 30 s ticker, then Save.
Tick ==
    /\ flusher = "waiting"
    /\ ~crashed
    /\ file' = Save
    /\ saveCalled' = TRUE
    /\ sv' = [sv EXCEPT !.cap = Cardinality(DOMAIN data), !.keys = DOMAIN data,
                        !.got = data]
    /\ UNCHANGED <<filePath, data, mainPc, flusher, rq, crashed, loadCalled,
                   loadedKeys, captured, stored, joinVars, fresh, ctx>>

(***************************************************************************)
(* ProxyHandler.ServeHTTP, one action per blocking point.                  *)
(***************************************************************************)
Set(h, r) == rq' = [rq EXCEPT ![h] = r]

\* Only the first of the two deletions.
StripIfNoneMatch(hdr) == hdr \ {"If-None-Match"}

\* r.Header.Del("If-None-Match"); r.Header.Del("If-Modified-Since")
StripConditional(hdr) == (hdr \ {"If-None-Match"}) \ {"If-Modified-Since"}

\* A check of the configuration that forgets the method.
EligibleAnyMethod(r) == useCache

\* The request is the one whose body the handler captures for the cache.
Eligible(r) == r.method = "GET" /\ useCache

\* A request arrives: p := r.URL.String()
Receive(h, in) ==
    /\ mainPc = "serving" /\ ~crashed
    /\ rq[h].pc = "idle"
    /\ \E m \in in.methods, u \in in.urls, hd \in in.hdrs :
          Set(h, [IdleRq EXCEPT !.pc = "check", !.method = m, !.inUrl = u, !.url = u,
                                !.p = URLString(u), !.inHdr = hd, !.hdr = hd])
    /\ UNCHANGED <<filePath, data, file, mainPc, flusher, crashed, loadCalled,
                   saveCalled, loadedKeys, captured, stored, joinVars, auxVars>>

\* The cache check: a hit is copied to the client and the handler returns.
CacheCheck(h) ==
    /\ ~crashed
    /\ rq[h].pc = "check"
    /\ IF Eligible(rq[h])
       THEN IF rq[h].p \in DOMAIN data
            THEN Set(h, [rq[h] EXCEPT !.pc = "done", !.looked = TRUE,
                                      !.wStatus = 200, !.wBody = data[rq[h].p]])
            ELSE Set(h, [rq[h] EXCEPT !.pc = "forward", !.looked = TRUE])
       ELSE Set(h, [rq[h] EXCEPT !.pc = "forward"])
    /\ UNCHANGED <<filePath, data, file, mainPc, flusher, crashed, loadCalled,
                   saveCalled, loadedKeys, captured, stored, joinVars, auxVars>>

\* The request as http.DefaultClient.Do gets it.
Outbound(r) ==
    [r EXCEPT !.url = rewriteRequestURL(r.url, TargetURL),
              !.hdr = StripConditional(r.hdr),
              !.forwarded = TRUE]

\* What the handler does when Do returns an error: with a nil response,
\* resp.StatusCode panics (the server recovers the panic and closes the
\* connection); with the response of a refused redirect (a 302 with its
\* Location), http.Error, which writes the status and a text.
DoFailed(r, respIsNil) ==
    IF respIsNil
    THEN [r EXCEPT !.pc = "panic", !.err = "transport"]
    ELSE [r EXCEPT !.pc = "done", !.err = "redirect", !.status = 302,
                   !.respHdr = {"Location"}, !.wStatus = 302, !.wBody = <<"error">>]

\* Rewrite, strip, forward: Do returns a response or an error.
Forward(h, in) ==
    /\ ~crashed
    /\ rq[h].pc = "forward"
    /\ \/ \E st \in in.statuses, rh \in in.respHdrs :
             Set(h, [Outbound(rq[h]) EXCEPT !.pc = "mirror", !.status = st, !.respHdr = rh])
       \/ \E respIsNil \in BOOLEAN :
             Set(h, DoFailed(Outbound(rq[h]), respIsNil))
    /\ UNCHANGED <<filePath, data, file, mainPc, flusher, crashed, loadCalled,
                   saveCalled, loadedKeys, captured, stored, joinVars, auxVars>>

\* A head with the status only.
MirrorStatusOnly(r) == [r EXCEPT !.pc = "body", !.wStatus = r.status]

\* w.Header().Add(key, value) for every header of the response, then
\* w.WriteHeader(resp.StatusCode).
MirrorHead(r) == [r EXCEPT !.pc = "body", !.wHdr = r.respHdr, !.wStatus = r.status]

\* The response headers are copied and w.WriteHeader(resp.StatusCode) is called.
Mirror(h) ==
    /\ ~crashed
    /\ rq[h].pc = "mirror"
    /\ Set(h, MirrorHead(rq[h]))
    /\ UNCHANGED <<filePath, data, file, mainPc, flusher, crashed, loadCalled,
                   saveCalled, loadedKeys, captured, stored, joinVars, auxVars>>

\* Not GET, or no cache: io.Copy(w, resp.Body)
DirectCopy(h, in) ==
    /\ ~crashed
    /\ rq[h].pc = "body"
    /\ ~Eligible(rq[h])
    /\ \E b \in in.bodies :
          /\ Set(h, [rq[h] EXCEPT !.pc = "done", !.body = b, !.wBody = b])
          /\ captured' = IF rq[h].method = "GET" /\ IsGzip(b)
                         THEN captured \cup {rq[h].p} ELSE captured
    /\ UNCHANGED <<filePath, data, file, mainPc, flusher, crashed, loadCalled,
                   saveCalled, loadedKeys, stored, joinVars, auxVars>>

\* A capture that ignores the errors of the gzip reader.
AfterGzipUnchecked(r, b, n) ==
    [r EXCEPT !.pc = "store", !.body = b, !.wBody = SubSeq(b, 1, n),
              !.buf = GzipRead(b, 1, FALSE, TRUE, <<>>).out]

\* The locals after gzip.NewReader(io.TeeReader(resp.Body, w)) and
\* io.Copy(buf, gr) on body b, the tee having passed n bytes to w.
AfterGzip(r, b, n) ==
    LET g == GzipRead(b, 1, FALSE, TRUE, <<>>)
    IN  IF g.res = "ok"
        THEN [r EXCEPT !.pc = "store", !.body = b, !.wBody = SubSeq(b, 1, n),
                       !.buf = g.out]
        ELSE [r EXCEPT !.pc = "done", !.body = b, !.wBody = SubSeq(b, 1, n)]

GzipCapture(h, in) ==
    /\ ~crashed
    /\ rq[h].pc = "body"
    /\ Eligible(rq[h])
    /\ \E b \in in.bodies :
          /\ \E n \in TeeLens(b, GzipRead(b, 1, FALSE, TRUE, <<>>).need) :
                Set(h, AfterGzip(rq[h], b, n))
          /\ captured' = IF rq[h].method = "GET" /\ IsGzip(b)
                         THEN captured \cup {rq[h].p} ELSE captured
    /\ UNCHANGED <<filePath, data, file, mainPc, flusher, crashed, loadCalled,
                   saveCalled, loadedKeys, stored, joinVars, auxVars>>

\* h.cache.data[p] = buf.Bytes()
Store(h) ==
    /\ ~crashed
    /\ rq[h].pc = "store"
    /\ data' = MapStore(data, rq[h].p, rq[h].buf)
    /\ Set(h, [rq[h] EXCEPT !.pc = "done"])
    /\ stored' = stored \cup {rq[h].p}
    /\ sv' = Record(sv, MapStore(data, rq[h].p, rq[h].buf))
    /\ UNCHANGED <<filePath, file, mainPc, flusher, crashed, loadCalled,
                   saveCalled, loadedKeys, captured, joinVars, fresh, ctx>>

\* ServeHTTP has returned (or panicked) and the goroutine takes no more part.
Return(h) ==
    /\ ~crashed
    /\ rq[h].pc \in {"done", "panic"}
    /\ Set(h, IdleRq)
    /\ UNCHANGED <<filePath, data, file, mainPc, flusher, crashed, loadCalled,
                   saveCalled, loadedKeys, captured, stored, joinVars, auxVars>>

\* The map is not locked: when a goroutine writes it while another reads or
\* writes it, the runtime may end the process ("concurrent map writes").
AtMapAccess(r) == r.pc = "store" \/ (r.pc = "check" /\ Eligible(r))

MapRaceFatal ==
    /\ ~crashed
    /\ \E h1 \in Handlers, h2 \in Handlers :
          h1 # h2 /\ rq[h1].pc = "store" /\ AtMapAccess(rq[h2])
    /\ crashed' = TRUE
    /\ UNCHANGED <<filePath, data, file, mainPc, flusher, rq, loadCalled,
                   saveCalled, loadedKeys, captured, stored, joinVars, auxVars>>

Next ==
    \/ Run
    \/ Tick
    \/ MapRaceFatal
    \/ \E h \in Handlers :
          \/ Receive(h, ConcIn)
          \/ CacheCheck(h)
          \/ Forward(h, ConcIn)
          \/ Mirror(h)
          \/ DirectCopy(h, ConcIn)
          \/ GzipCapture(h, ConcIn)
          \/ Store(h)
          \/ Return(h)

Spec == Init /\ [][Next]_vars

\* One request at a time, over all the requests and responses.
NextSeq ==
    \/ Run
    \/ \E h \in SeqHandlers :
          \/ Receive(h, SeqIn)
          \/ CacheCheck(h)
          \/ Forward(h, SeqIn)
          \/ Mirror(h)
          \/ DirectCopy(h, SeqIn)
          \/ GzipCapture(h, SeqIn)
          \/ Store(h)
          \/ Return(h)

SpecSeq == Init /\ [][NextSeq]_vars

(***************************************************************************)
(* The path join on its own, over all pairs of paths.                      *)
(***************************************************************************)
WirePaths == SeqsUpTo({"/", "x", "%2F"}, MaxPath)

InitJoin ==
    /\ filePath = NewLocalCache("").filePath
    /\ data = NewLocalCache("").data
    /\ file = AbsentFile
    /\ mainPc = "start"
    /\ flusher = "none"
    /\ rq = [h \in Handlers |-> IdleRq]
    /\ crashed = FALSE
    /\ loadCalled = FALSE
    /\ saveCalled = FALSE
    /\ loadedKeys = {}
    /\ captured = {}
    /\ stored = {}
    /\ \E wa \in WirePaths : ja = ParseURL("http", "upstream", wa, <<>>)
    /\ \E wb \in WirePaths : jb = ParseURL("", "", wb, <<>>)
    /\ jout = NoJoin
    /\ fresh = NoFresh
    /\ sv = NoSave
    /\ ctx = "live"

\* req.URL.Path, req.URL.RawPath = joinURLPath(target, req.URL)
JoinPaths ==
    /\ ~jout.done
    /\ jout' = [done |-> TRUE, path |-> joinURLPath(ja, jb).path,
                rawpath |-> joinURLPath(ja, jb).rawpath]
    /\ UNCHANGED <<proxyVars, ja, jb, auxVars>>

NextJoin == JoinPaths

SpecJoin == InitJoin /\ [][NextJoin]_vars

(***************************************************************************)
(* The rewrite on its own, over all pairs of query strings.                *)
(***************************************************************************)
Queries == SeqsUpTo({"a", "b"}, MaxQuery)
RewritePaths == {<<>>, <<"/", "x">>, <<"/", "x", "/">>}

InitRewrite ==
    /\ filePath = NewLocalCache("").filePath
    /\ data = NewLocalCache("").data
    /\ file = AbsentFile
    /\ mainPc = "start"
    /\ flusher = "none"
    /\ rq = [h \in Handlers |-> IdleRq]
    /\ crashed = FALSE
    /\ loadCalled = FALSE
    /\ saveCalled = FALSE
    /\ loadedKeys = {}
    /\ captured = {}
    /\ stored = {}
    /\ \E wa \in RewritePaths, qa \in Queries : ja = ParseURL("http", "upstream", wa, qa)
    /\ \E wb \in RewritePaths, qb \in Queries : jb = ParseURL("", "", wb, qb)
    /\ jout = [done |-> FALSE, url |-> jb]
    /\ fresh = NoFresh
    /\ sv = NoSave
    /\ ctx = "live"

\* rewriteRequestURL(r, target)
RewriteURL ==
    /\ ~jout.done
    /\ jout' = [done |-> TRUE, url |-> rewriteRequestURL(jb, ja)]
    /\ UNCHANGED <<proxyVars, ja, jb, auxVars>>

NextRewrite == RewriteURL

SpecRewrite == InitRewrite /\ [][NextRewrite]_vars

(***************************************************************************)
(* The snapshot: requests fill the cache, Save writes it, a second         *)
(* LocalCache on the same file loads it.                                   *)
(***************************************************************************)
SnapUrls == {ParseURL("", "", <<"/", "x">>, <<>>),
             ParseURL("", "", <<"/", "x">>, <<"xFF">>)}

SnapFiles ==
    InitialFiles \cup
    {JsonFile([k \in {<<"/", "x">>, <<"/", "y">>} |->
                  IF k = <<"/", "x">> THEN <<"cA">> ELSE <<"*">>])}

SnapIn == [methods |-> {"GET"}, urls |-> SnapUrls, hdrs |-> {{}},
           statuses |-> {200}, respHdrs |-> {{"Content-Encoding", "ETag"}},
           bodies |-> {<<"H", "F">>, <<"H", "c", "F">>}]

InitSnap ==
    /\ filePath = NewLocalCache("dir").filePath
    /\ data = NewLocalCache("dir").data
    /\ file \in SnapFiles
    /\ mainPc = "start"
    /\ flusher = "none"
    /\ rq = [h \in Handlers |-> IdleRq]
    /\ crashed = FALSE
    /\ loadCalled = FALSE
    /\ saveCalled = FALSE
    /\ loadedKeys = {}
    /\ captured = {}
    /\ stored = {}
    /\ ja = ParseURL("", "", <<>>, <<>>)
    /\ jb = ParseURL("", "", <<>>, <<>>)
    /\ jout = NoJoin
    /\ fresh = NoFresh
    /\ sv = NoSave
    /\ ctx = "live"

\* c2 := NewLocalCache(cacheDir); c2.Load()
LoadFresh ==
    /\ mainPc = "serving"
    /\ ~fresh.loaded
    /\ fresh' = [loaded |-> TRUE, afterSave |-> saveCalled, saved |-> sv.got,
                 data |-> LoadFrom(file, NewLocalCache("dir").data).data]
    /\ UNCHANGED <<proxyVars, joinVars, sv, ctx>>

NextSnap ==
    \/ Run
    \/ Tick
    \/ LoadFresh
    \/ \E h \in SeqHandlers :
          \/ Receive(h, SnapIn)
          \/ CacheCheck(h)
          \/ Forward(h, SnapIn)
          \/ Mirror(h)
          \/ GzipCapture(h, SnapIn)
          \/ Store(h)
          \/ Return(h)

SpecSnap == InitSnap /\ [][NextSnap]_vars

(***************************************************************************)
(* Save step by step: json.Marshal sizes a slice by the length of the map, *)
(* then iterates the map, while the handlers go on storing.                *)
(***************************************************************************)
TornIn == [methods |-> {"GET"}, urls |-> Urls, hdrs |-> {{}},
           statuses |-> {200}, respHdrs |-> {{"Content-Encoding", "ETag"}},
           bodies |-> {<<"H", "F">>, <<"H", "c", "F">>}]

InitTorn ==
    /\ filePath = NewLocalCache("dir").filePath
    /\ data = NewLocalCache("dir").data
    /\ file \in InitialFiles
    /\ mainPc = "start"
    /\ flusher = "none"
    /\ rq = [h \in Handlers |-> IdleRq]
    /\ crashed = FALSE
    /\ loadCalled = FALSE
    /\ saveCalled = FALSE
    /\ loadedKeys = {}
    /\ captured = {}
    /\ stored = {}
    /\ ja = ParseURL("", "", <<>>, <<>>)
    /\ jb = ParseURL("", "", <<>>, <<>>)
    /\ jout = NoJoin
    /\ fresh = NoFresh
    /\ sv = [NoSave EXCEPT !.seen = {NewLocalCache("dir").data}]
    /\ ctx = "live"

\* A visit that collects the key without its bytes.
VisitNil(s, m, k) ==
    [s EXCEPT !.got = [x \in DOMAIN s.got \cup {k} |-> IF x = k THEN <<>> ELSE s.got[x]]]

\* sv[i].k = mi.Key(); sv[i].v = mi.Value()
Visit(s, m, k) ==
    [s EXCEPT !.got = [x \in DOMAIN s.got \cup {k} |-> IF x = k THEN m[k] ELSE s.got[x]]]

\* The tick arrives: Save calls json.Marshal, which makes the slice.
SaveBegin ==
    /\ flusher = "waiting"
    /\ ~crashed
    /\ flusher' = "marshal"
    /\ sv' = [sv EXCEPT !.cap = Cardinality(DOMAIN data), !.keys = DOMAIN data,
                        !.got = EmptyMap]
    /\ UNCHANGED <<filePath, data, file, mainPc, rq, crashed, loadCalled, saveCalled,
                   loadedKeys, captured, stored, joinVars, fresh, ctx>>

\* The iteration yields an entry it has not yielded: one that was there at
\* the start, or one stored since.  One more than the slice holds is an
\* index out of range, a panic in the flush goroutine.
SaveVisit ==
    /\ flusher = "marshal"
    /\ ~crashed
    /\ \E k \in DOMAIN data \ DOMAIN sv.got :
          IF Cardinality(DOMAIN sv.got) < sv.cap
          THEN sv' = Visit(sv, data, k) /\ UNCHANGED crashed
          ELSE crashed' = TRUE /\ UNCHANGED sv
    /\ UNCHANGED <<filePath, data, file, mainPc, flusher, rq, loadCalled, saveCalled,
                   loadedKeys, captured, stored, joinVars, fresh, ctx>>

\* The iteration ends (every entry that was there at the start has been
\* yielded) and os.WriteFile writes what was collected.
SaveWrite ==
    /\ flusher = "marshal"
    /\ ~crashed
    /\ sv.keys \subseteq DOMAIN sv.got
    /\ file' = JsonFile(Marshal(sv.got))
    /\ saveCalled' = TRUE
    /\ flusher' = "waiting"
    /\ UNCHANGED <<filePath, data, mainPc, rq, crashed, loadCalled,
                   loadedKeys, captured, stored, joinVars, auxVars>>

\* The iteration and a store at the same moment: the runtime may end the
\* process ("concurrent map iteration and map write").
SaveRaceFatal ==
    /\ ~crashed
    /\ flusher = "marshal"
    /\ \E h \in Handlers : rq[h].pc = "store"
    /\ crashed' = TRUE
    /\ UNCHANGED <<filePath, data, file, mainPc, flusher, rq, loadCalled,
                   saveCalled, loadedKeys, captured, stored, joinVars, auxVars>>

NextTorn ==
    \/ Run
    \/ SaveBegin
    \/ SaveVisit
    \/ SaveWrite
    \/ SaveRaceFatal
    \/ MapRaceFatal
    \/ \E h \in Handlers :
          \/ Receive(h, TornIn)
          \/ CacheCheck(h)
          \/ Forward(h, TornIn)
          \/ Mirror(h)
          \/ GzipCapture(h, TornIn)
          \/ Store(h)
          \/ Return(h)

SpecTorn == InitTorn /\ [][NextTorn]_vars

(***************************************************************************)
(* The flush goroutine and the context Run was given.  run() passes        *)
(* context.Background(), which is never cancelled; here the context is one *)
(* its owner may cancel, as the parameter of Run allows.                   *)
(***************************************************************************)
Cancel ==
    /\ mainPc = "serving"
    /\ ctx = "live"
    /\ ctx' = "cancelled"
    /\ UNCHANGED <<proxyVars, joinVars, fresh, sv>>

\* case <-ctx.Done(): return
FlusherStop ==
    /\ flusher = "waiting"
    /\ ctx = "cancelled"
    /\ flusher' = "stopped"
    /\ UNCHANGED <<filePath, data, file, mainPc, rq, crashed, loadCalled, saveCalled,
                   loadedKeys, captured, stored, joinVars, auxVars>>

NextFlush ==
    \/ Run
    \/ Tick
    \/ Cancel
    \/ FlusherStop
    \/ \E h \in SeqHandlers :
          \/ Receive(h, TornIn)
          \/ CacheCheck(h)
          \/ Forward(h, TornIn)
          \/ Mirror(h)
          \/ GzipCapture(h, TornIn)
          \/ Store(h)
          \/ Return(h)

\* The select takes a case that stays ready: once the context is cancelled,
\* ctx.Done() is ready for good, the ticker only now and then.
SpecFlush == InitSnap /\ [][NextFlush]_vars /\ WF_vars(FlusherStop)

(***************************************************************************)
(* The claims.                                                             *)
(***************************************************************************)
\* A GET request that missed the cache and got a response from upstream.
Missed(r) == Eligible(r) /\ r.forwarded /\ r.err = ""

\* C1: when a GET request that missed the cache (cache enabled) got a body
\* that is a complete gzip stream, then once ServeHTTP has returned the client
\* has exactly the raw bytes upstream sent and the cache holds, under the
\* request's key, exactly what they decompress to.
C1_GzipMissRawToClientPayloadToCache ==
    \A h \in Handlers :
       (rq[h].pc = "done" /\ Missed(rq[h]) /\ IsGzip(rq[h].body)) =>
          /\ rq[h].wBody = rq[h].body
          /\ rq[h].p \in DOMAIN data
          /\ data[rq[h].p] = Payload(rq[h].body)

C1_Witness ==
    \E h \in Handlers :
       /\ rq[h].pc = "done" /\ Missed(rq[h])
       /\ rq[h].body = <<"H", "c", "F">>
       /\ rq[h].wBody = <<"H", "c", "F">>
       /\ rq[h].p \in DOMAIN data /\ data[rq[h].p] = <<"p">>

\* C2: once a request has stored an entry under a key, the cache check of
\* every later GET request with that key (cache enabled) ends the request
\* with no outbound call and with the client holding exactly the bytes the
\* cache holds for the key.
C2_LaterGetServedFromCache ==
    [][\A h \in Handlers :
          (rq[h].pc = "check" /\ rq'[h].pc # "check" /\ Eligible(rq[h])
             /\ rq[h].p \in stored) =>
             /\ rq[h].p \in DOMAIN data
             /\ rq'[h].pc = "done"
             /\ ~rq'[h].forwarded
             /\ rq'[h].wBody = data[rq[h].p]]_vars

C2_Witness ==
    \E h \in Handlers :
       /\ rq[h].pc = "done" /\ Eligible(rq[h]) /\ ~rq[h].forwarded
       /\ rq[h].p \in stored
       /\ rq[h].wBody = <<"p">>

\* C3: for every GET response on the capture path the client receives exactly
\* the bytes upstream sent, also when the body is empty, no gzip, or a gzip
\* stream that fails part-way, and in those cases no cache entry is created.
C3_CaptureNeverTruncates ==
    \A h \in Handlers :
       (rq[h].pc \in {"store", "done"} /\ Missed(rq[h])) =>
          /\ rq[h].wBody = rq[h].body
          /\ ~IsGzip(rq[h].body) => (rq[h].pc = "done" /\ rq[h].p \notin DOMAIN data)

\* C4: in a run that loaded no snapshot, a key is in the cache only if an
\* earlier GET request with that key got a body that was a complete gzip
\* stream.
C4_KeysComeFromCompleteGzip ==
    loadedKeys = {} => DOMAIN data \subseteq captured

C4_Witness ==
    /\ loadedKeys = {}
    /\ loadCalled
    /\ \E h \in Handlers : rq[h].pc = "done" /\ Missed(rq[h]) /\ rq[h].p \in DOMAIN data
    /\ \E h \in Handlers : rq[h].pc = "done" /\ Missed(rq[h]) /\ rq[h].p \notin DOMAIN data

\* C5: no step of a request whose method is not GET reads or changes the
\* cache mapping, with the cache on or off, and such a request never ends
\* without having been forwarded upstream.
C5_NonGetBypassesCache ==
    [][\A h \in Handlers :
          (rq[h].pc # "idle" /\ rq[h].method # "GET" /\ rq'[h] # rq[h]) =>
             /\ data' = data
             /\ ~rq'[h].looked
             /\ rq'[h].pc \in {"done", "panic"} => rq'[h].forwarded]_vars

C5_Witness ==
    \E h \in Handlers :
       /\ rq[h].pc = "done" /\ rq[h].method = "POST" /\ rq[h].forwarded
       /\ useCache
       /\ rq[h].p \in DOMAIN data
       /\ IsGzip(rq[h].body)

\* C6: when Do fails at the transport level the handler answers the client
\* with an error response carrying the description and returns: it does not
\* crash.
C6_TransportFailureAnswered ==
    \A h \in Handlers :
       rq[h].err = "transport" =>
          /\ rq[h].pc = "done"
          /\ rq[h].wStatus # 0
          /\ rq[h].wBody = <<"error">>

\* C7: a GET request whose upstream response has a status that is not 2xx
\* stores no cache entry, even when its body is a complete gzip stream.
C7_OnlySuccessStored ==
    \A h \in Handlers :
       rq[h].pc = "store" => (200 <= rq[h].status /\ rq[h].status < 300)

\* C8: the outbound request of every forwarded request carries neither
\* If-None-Match nor If-Modified-Since, whatever the inbound request carried.
C8_NoConditionalHeadersUpstream ==
    \A h \in Handlers :
       rq[h].forwarded => rq[h].hdr \cap {"If-None-Match", "If-Modified-Since"} = {}

C8_Witness ==
    \E h \in Handlers :
       /\ rq[h].forwarded
       /\ rq[h].inHdr = {"If-None-Match", "If-Modified-Since", "Accept"}
       /\ rq[h].hdr = {"Accept"}

\* C9: with no cache directory configured no request looks up or stores an
\* entry, every request that ends was forwarded, no snapshot is loaded, the
\* flush goroutine is never started and Save is never called.
C9_NoCacheDirIsPassThrough ==
    filePath = "" =>
       /\ data = EmptyMap /\ stored = {}
       /\ ~loadCalled /\ loadedKeys = {}
       /\ flusher = "none" /\ ~saveCalled
       /\ \A h \in Handlers :
             /\ ~rq[h].looked
             /\ rq[h].pc # "store"
             /\ rq[h].pc \in {"done", "panic"} => rq[h].forwarded

C9_Witness ==
    /\ filePath = ""
    /\ file.kind = "json"
    /\ \E h \in Handlers :
          rq[h].pc = "done" /\ rq[h].method = "GET" /\ IsGzip(rq[h].body)

\* The escaped path of the joined URL.
JoinedEscaped == EscapedPath([Path |-> jout.path, RawPath |-> jout.rawpath])

TrimSuffixSlash(s) == IF HasSuffixSlash(s) THEN SubSeq(s, 1, Len(s) - 1) ELSE s
TrimPrefixSlash(s) == IF HasPrefixSlash(s) THEN Tail(s) ELSE s

RECURSIVE TrimSuffixSlashes(_)
TrimSuffixSlashes(s) ==
    IF HasSuffixSlash(s) THEN TrimSuffixSlashes(SubSeq(s, 1, Len(s) - 1)) ELSE s

RECURSIVE TrimPrefixSlashes(_)
TrimPrefixSlashes(s) ==
    IF HasPrefixSlash(s) THEN TrimPrefixSlashes(Tail(s)) ELSE s

\* C10 as stated: for every target path and request path the join is the
\* target path, one slash, the request path: never no slash and never two
\* where they meet.
C10_ExactlyOneSlashAlways ==
    jout.done =>
       JoinedEscaped = TrimSuffixSlashes(EscapedPath(ja)) \o <<"/">>
                          \o TrimPrefixSlashes(EscapedPath(jb))

\* C10 as amended: the join takes at most one slash off the end of the
\* target path and at most one off the start of the request path and puts one
\* slash between them; so where they meet there is exactly one slash whenever
\* the target path ends with at most one and the request path begins with at
\* most one.
C10_OneSlashAdjusted ==
    jout.done =>
       /\ JoinedEscaped = TrimSuffixSlash(EscapedPath(ja)) \o <<"/">>
                             \o TrimPrefixSlash(EscapedPath(jb))
       /\ (~HasSuffixSlash(TrimSuffixSlash(EscapedPath(ja)))
             /\ ~HasPrefixSlash(TrimPrefixSlash(EscapedPath(jb)))) =>
             JoinedEscaped = TrimSuffixSlashes(EscapedPath(ja)) \o <<"/">>
                                \o TrimPrefixSlashes(EscapedPath(jb))

C10_Witness ==
    /\ jout.done
    /\ ja.RawPath # <<>>
    /\ HasSuffixSlash(EscapedPath(ja)) /\ HasPrefixSlash(EscapedPath(jb))
    /\ Len(jb.Path) > 1
    /\ JoinedEscaped = TrimSuffixSlashes(EscapedPath(ja)) \o <<"/">>
                          \o TrimPrefixSlashes(EscapedPath(jb))

\* C11: the rewrite sets the outbound query to nothing when the target query
\* and the request query are both empty, to the one that is not empty when
\* exactly one is, and to the target query, "&", the request query when
\* neither is.
C11_QueryJoin ==
    jout.done =>
       jout.url.RawQuery =
          IF ja.RawQuery = <<>> /\ jb.RawQuery = <<>> THEN <<>>
          ELSE IF ja.RawQuery = <<>> THEN jb.RawQuery
          ELSE IF jb.RawQuery = <<>> THEN ja.RawQuery
          ELSE ja.RawQuery \o <<"&">> \o jb.RawQuery

C11_Witness ==
    /\ jout.done
    /\ ja.RawQuery = <<"a">> /\ jb.RawQuery = <<"b", "a">>
    /\ jout.url.RawQuery = <<"a", "&", "b", "a">>
    /\ jout.url.Host = "upstream"

\* C12: for every cache mapping, Save followed by Load into a fresh
\* LocalCache on the same file gives a mapping with exactly the keys, and for
\* each key exactly the bytes, that Save serialized.
C12_SaveLoadRoundTrip ==
    (fresh.loaded /\ fresh.afterSave) => fresh.data = fresh.saved

\* A snapshot every value of which decodes.
ReadableSnapshot(f) ==
    f.kind = "json" /\ \A k \in DOMAIN f.obj : \A i \in 1..Len(f.obj[k]) : f.obj[k][i] = "cA"

\* C13: at startup, when the snapshot file is absent the cache is empty after
\* Load; when the snapshot cannot be read or deserialized the process keeps
\* running and the cache is empty after Load: no entry of the bad snapshot is
\* kept.
C13_BadSnapshotLeavesCacheEmpty ==
    [][(mainPc = "start" /\ mainPc' = "serving" /\ filePath # "") =>
          /\ ~crashed'
          /\ file.kind = "absent" => data' = EmptyMap
          /\ ~ReadableSnapshot(file) => data' = EmptyMap]_vars

\* The handler missed the cache, fetched from upstream, captured a complete
\* gzip stream, stored it and has returned from the store.
StoredBy(r) ==
    /\ r.pc = "done" /\ r.looked /\ Missed(r)
    /\ GzipRead(r.body, 1, FALSE, TRUE, <<>>).res = "ok"

\* C14: two GET requests for one key handled concurrently can both miss and
\* both fetch from upstream; every store overwrites the entry with the bytes
\* of the storing request, whatever is there, so that after both have stored
\* the entry holds the bytes of one of them: of the one that stored last.
C14_BothMissLastWriterWins ==
    /\ [](\A h1 \in Handlers, h2 \in Handlers :
             (h1 # h2 /\ StoredBy(rq[h1]) /\ StoredBy(rq[h2]) /\ rq[h1].p = rq[h2].p) =>
                /\ rq[h1].p \in DOMAIN data
                /\ data[rq[h1].p] \in {rq[h1].buf, rq[h2].buf})
    /\ [][\A h \in Handlers :
             (rq[h].pc = "store" /\ rq'[h].pc = "done") =>
                /\ rq[h].p \in DOMAIN data'
                /\ data'[rq[h].p] = rq[h].buf]_vars

\* Both missed on the same key, both stored, with different bytes, and the
\* entry is the second one's although the first one's was there before.
C14_Witness ==
    /\ StoredBy(rq[1]) /\ StoredBy(rq[2])
    /\ rq[1].p = rq[2].p
    /\ rq[1].buf # rq[2].buf
    /\ data[rq[1].p] = rq[2].buf
    /\ ~crashed

\* C15: Save takes no lock, so stores go on while it collects the entries.
\* The snapshot it writes has the keys the map had when Save began and, for
\* each key, bytes memory held under that key at some instant; nothing makes
\* these instants the same one, so the snapshot as a whole can be a mapping
\* memory never held.
C15_SnapshotEntryWise ==
    (saveCalled /\ flusher = "waiting") =>
       /\ file = JsonFile(Marshal(sv.got))
       /\ DOMAIN sv.got = sv.keys
       /\ \A k \in DOMAIN sv.got :
             \E m \in sv.seen : k \in DOMAIN m /\ m[k] = sv.got[k]

\* A snapshot has been written that memory held at no instant of the
\* execution: it has the new bytes of "/x?q" and lacks "/x", which was stored
\* before them.
C15_Witness ==
    /\ saveCalled /\ flusher = "waiting" /\ ~crashed
    /\ file = JsonFile(Marshal(sv.got))
    /\ sv.got \notin sv.seen
    /\ DOMAIN sv.got = {<<"/", "x", "?", "q">>}
    /\ <<"/", "x">> \in DOMAIN data

\* C16: the snapshot file is written, and Save called, only by the flush
\* goroutine taking a tick while it waits in its select; once the context is
\* cancelled the goroutine eventually returns; and after it has returned it
\* stays so, Save is not called and the file is not written again.
C16_FlushOnlyOnTickStopsOnCancel ==
    /\ [][(file' # file \/ saveCalled' # saveCalled \/ sv'.got # sv.got) =>
             (flusher = "waiting" /\ flusher' = "waiting" /\ data' = data /\ rq' = rq)]_vars
    /\ [][flusher = "stopped" =>
             (flusher' = "stopped" /\ file' = file /\ saveCalled' = saveCalled /\ sv' = sv)]_vars
    /\ ((ctx = "cancelled" /\ flusher = "waiting") ~> (flusher = "stopped"))

\* The goroutine has returned after the cancellation, with entries in memory
\* that the file, written by an earlier tick, does not have.
C16_Witness ==
    /\ ctx = "cancelled" /\ flusher = "stopped"
    /\ saveCalled
    /\ file = JsonFile(EmptyMap)
    /\ data # EmptyMap

\* What C17 says of one handler whenever body bytes have reached the client:
\* a forwarded request has all headers and the status of upstream's response
\* written; a hit has no header and the implicit 200.
HeadWritten(r) ==
    /\ (r.forwarded /\ r.wBody # <<>>) => (r.wHdr = r.respHdr /\ r.wStatus = r.status)
    /\ (r.looked /\ ~r.forwarded /\ r.pc = "done") => (r.wHdr = {} /\ r.wStatus = 200)

\* C17 as stated: for every forwarded request all headers and the status of
\* upstream's response are written to the client before any body byte, and
\* a hit has no upstream header and status 200.
C17_HeadBeforeBodyAlways == \A h \in Handlers : HeadWritten(rq[h])

\* C17 adjusted: the same for every forwarded request to which Do returned a
\* response without an error, on the direct path and on the capture path:
\* the step that writes the first body byte starts with the head written.
\* (With the response of a refused redirect the handler writes that
\* response's status and an error text, and none of its headers.)
C17_HeadBeforeBody ==
    /\ [](\A h \in Handlers : rq[h].err = "" => HeadWritten(rq[h]))
    /\ [][\A h \in Handlers :
             (rq[h].forwarded /\ rq[h].err = "" /\ rq[h].wBody = <<>> /\ rq'[h].wBody # <<>>) =>
                /\ rq[h].wStatus = rq[h].status /\ rq[h].wStatus # 0
                /\ rq[h].wHdr = rq[h].respHdr
                /\ rq'[h].wStatus = rq[h].wStatus /\ rq'[h].wHdr = rq[h].wHdr]_vars

\* A POST (direct path) got its body with upstream's two headers and 404.
C17_Witness ==
    /\ rq[1].pc = "done" /\ rq[1].method = "POST" /\ rq[1].forwarded /\ rq[1].err = ""
    /\ rq[1].wBody = <<"c", "c">>
    /\ rq[1].wHdr = {"Content-Encoding", "ETag"} /\ rq[1].wStatus = 404

\* C18: nothing evicts or deletes: no step of the program, the startup load,
\* a request or a flush, in whatever interleaving, takes a key out of the
\* in-memory mapping, and a step in which Save runs leaves the mapping as it
\* is.
C18_KeysNeverShrink ==
    [][/\ DOMAIN data \subseteq DOMAIN data'
       /\ (file' # file \/ saveCalled' # saveCalled \/ sv'.got # sv.got) => data' = data]_vars

\* A loaded entry and a stored one are both in memory after a flush wrote
\* them, and a later request was served from the stored one.
C18_Witness ==
    /\ saveCalled
    /\ loadedKeys = {<<"/", "x">>}
    /\ stored = {<<"/", "x", "?", "q">>}
    /\ DOMAIN data = {<<"/", "x">>, <<"/", "x", "?", "q">>}
    /\ file = JsonFile(Marshal(data))
    /\ \E h \in Handlers :
          rq[h].pc = "done" /\ rq[h].looked /\ ~rq[h].forwarded /\ rq[h].p = <<"/", "x", "?", "q">>

\* s ends with t.
EndsWith(s, t) == Len(s) >= Len(t) /\ SubSeq(s, Len(s) - Len(t) + 1, Len(s)) = t

\* C19: the key of a request is the string of its inbound URL with the query,
\* taken before the rewrite and kept to the end: requests whose inbound URLs
\* differ, be it in the query only, have different keys; the rewrite leaves
\* the key alone; a hit is served from the entry under the request's key and
\* a store writes the entry under that same key and no other.
C19_KeyIsInboundURL ==
    /\ [](\A h1 \in Handlers, h2 \in Handlers :
             (rq[h1].pc # "idle" /\ rq[h2].pc # "idle" /\ rq[h1].inUrl # rq[h2].inUrl) =>
                rq[h1].p # rq[h2].p)
    /\ [](\A h \in Handlers :
             (rq[h].pc # "idle" /\ rq[h].inUrl.RawQuery # <<>>) =>
                EndsWith(rq[h].p, <<"?">> \o rq[h].inUrl.RawQuery))
    /\ [][\A h \in Handlers :
             /\ (rq[h].pc # "idle" /\ rq'[h].pc # "idle") =>
                   (rq'[h].p = rq[h].p /\ rq'[h].inUrl = rq[h].inUrl)
             /\ (rq[h].pc = "check" /\ rq'[h].pc = "done") =>
                   (rq[h].p \in DOMAIN data /\ rq'[h].wBody = data[rq[h].p])
             /\ (rq[h].pc = "store" /\ rq'[h].pc = "done") =>
                   /\ DOMAIN data' = DOMAIN data \cup {rq[h].p}
                   /\ \A k \in DOMAIN data \ {rq[h].p} : data'[k] = data[k]]_vars

\* "/x" is cached; a GET for "/x?q" looked it up under its own key, missed,
\* and has been rewritten for upstream with its key unchanged, while a GET
\* for "/x" is served from the cache.
C19_Witness ==
    /\ DOMAIN data = {<<"/", "x">>}
    /\ rq[1].method = "GET" /\ rq[1].inUrl.RawQuery = <<"q">>
    /\ rq[1].looked /\ rq[1].forwarded /\ rq[1].url.Host = "upstream"
    /\ rq[1].p = <<"/", "x", "?", "q">>
    /\ rq[2].method = "GET" /\ rq[2].inUrl.RawQuery = <<>>
    /\ rq[2].pc = "done" /\ rq[2].looked /\ ~rq[2].forwarded
    /\ rq[2].p = <<"/", "x">>

====
